---- MODULE Spec2Model ----
(***************************************************************************)
(* Control plane of quickresolve: the task store and broker of             *)
(* task-service (src/task-service/main.py), its dispatcher, and the        *)
(* worker-side slot manager (src/libs/task_manager/task_manager.py).       *)
(***************************************************************************)
EXTENDS Integers, Sequences, FiniteSets, TLC

\* ------------------------------------------------------------------ bounds
\* task ids of the model
MaxTasks == 3
\* tasks submitted in the broker specifications
MaxBrokerTasks == 2
\* tasks submitted in the task store specification
MaxStoreTasks == 1
\* the clock runs from 0 to MaxTime
MaxTime == 1
\* start() coroutines scheduled and not yet run, or waiting for _ready_lock
MaxStarts == 1
\* execute_task invocations running at a time for one task id
MaxHandlers == 2
\* max_concurrent of the worker's TaskManager (CHUNK_MAX_CONCURRENT)
max_concurrent == 2
\* steps in the list of a submitted pipeline
MaxSteps == 5
\* chunks in the output of a chunk task
MaxChunks == 2
\* chunks in the output of the chunk task of a long document
ManyChunks == 11
\* steps in a submitted list that may repeat names and hold unknown names
MaxListed == 3

\* ------------------------------------------------------- program constants
\* Python None / SQL NULL (nullable columns start_timestamp, end_timestamp;
\* optional fields of the request bodies).
None == -1
\* .limit(64) on the batch of ready consumers
BatchLimit == 64

\* Topic names (DBTask.name / DBConsumer.topic) used in the model: "chunk"
\* is a key of REGISTRY, "custom" is a topic REGISTRY has no entry for.
Topics == {"chunk", "custom"}

\* URL REGISTRY["chunk"]["url"], which is also the endpoint_url the
\* chunking service registers by default.
CHUNKING_SERVICE_URL == "http://chunking-service:8006/chunk"
\* A second chunking instance started with another CHUNKING_SERVICE_URL.
CHUNKING_SERVICE_URL_B == "http://chunking-service-b:8006/chunk"
\* A worker of a topic that is not in REGISTRY.
CUSTOM_SERVICE_URL == "http://custom-service:9000/run"

\* endpoint_url values in ascending (lexicographic) order, as
\* order_by(DBConsumer.endpoint_url.asc()) returns them.
EndpointOrder ==
    <<CHUNKING_SERVICE_URL_B, CHUNKING_SERVICE_URL, CUSTOM_SERVICE_URL>>

Endpoints == {EndpointOrder[i] : i \in 1..Len(EndpointOrder)}

EndpointRank(e) == CHOOSE i \in 1..Len(EndpointOrder) : EndpointOrder[i] = e

\* The topic each worker process is configured with (TaskBrokerClient.topic).
EndpointTopic(e) == IF e = CUSTOM_SERVICE_URL THEN "custom" ELSE "chunk"

\* Broker instances (task-service processes running _broker_assignment_loop).
AllBrokers == {"b1", "b2"}

\* src/task-service/registry.py: keys are lowercase task names.
REGISTRY ==
    [n \in {"hello-world", "index-document", "parse-document", "redact",
            "chunk", "embed", "index"} |->
        IF n = "hello-world"
        THEN [type |-> "internal", handler |-> "hello_world", url |-> "-"]
        ELSE [type |-> "http", handler |-> "-",
              url |-> CASE n = "chunk" -> CHUNKING_SERVICE_URL
                        [] n = "index-document" -> "http://index-document-service:8011/"
                        [] n = "parse-document" -> "http://document-parsing-service:8005/parse"
                        [] n = "redact" -> "http://redaction-service:8007/redact"
                        [] n = "embed" -> "http://embedding-service:8001/embed-chunk"
                        [] OTHER -> "http://indexing-service:8012/index-chunk"]]

\* (t.name or "").lower() on the names of the model
Lower(s) == CASE s = "Chunk" -> "chunk"
              [] s = "Custom" -> "custom"
              [] OTHER -> s

\* REGISTRY.get(name_lc): the entry, or a record of type "none"
RegistryGet(name) ==
    IF Lower(name) \in DOMAIN REGISTRY
    THEN REGISTRY[Lower(name)]
    ELSE [type |-> "none", handler |-> "-", url |-> "-"]

VARIABLES
    now,          \* int(time.time())
    tasks,        \* table tasks: sequence of rows, the id is the index
    consumers,    \* table consumers: endpoint_url -> row, registered ones only
    brokers,      \* the running broker instances
    brk,          \* per broker: position in _assign_once_fifo and its session
    dispatchQ,    \* dispatch coroutines scheduled with _schedule_coro
    leaseCount,   \* per task: lease commits so far (saturating at 2)
    runLeases,    \* per task and broker: lease commits since the task last
                  \* returned to Queued (saturating at 2)
    wk,           \* the chunking worker process: its TaskManager, its start()
                  \* coroutines and its running execute_task invocations
    orch          \* the index-document service: the run of _run_pipeline for
                  \* the parent task it was handed

vars == <<now, tasks, consumers, brokers, brk, dispatchQ,
          leaseCount, runLeases, wk, orch>>

TaskIds == 1..MaxTasks

Min(a, b) == IF a < b THEN a ELSE b

Sat2(n) == Min(n + 1, 2)

\* ----------------------------------------------------------- task store
\* DBTask row as create_task inserts it. scheduled_start_timestamp None is
\* left out of the INSERT, so the column default _now_seconds applies.
\* The input a submitter posts, and another one a later request may carry
SubmittedInput == "submitted"

OtherInput == "other"

\* A JSON body without the key "input"
NoInput == "absent"

NewTask(name, sched) ==
    [name |-> name,
     input |-> SubmittedInput,
     creation_timestamp |-> now,
     modification_timestamp |-> now,
     scheduled_start_timestamp |-> IF sched = None THEN now ELSE sched,
     status_code |-> 0,
     progress_percentage |-> 0,
     start_timestamp |-> None,
     end_timestamp |-> None]

\* UpdateTaskBody: every field is optional (None = absent)
UpdateBodies ==
    [status_code : {None, 0, 1, 2, 3},
     progress_percentage : {None, 50, 100},
     scheduled_start_timestamp : {None} \cup (0..MaxTime)]

\* The JSON bodies a client sends to PUT /task/{task_id}: the fields of
\* UpdateTaskBody and, possibly, an input field
RawBodies ==
    [status_code : {None, 0, 1, 2, 3},
     progress_percentage : {None, 50, 100},
     scheduled_start_timestamp : {None} \cup (0..MaxTime),
     input : {NoInput, OtherInput}]

\* FastAPI validates the JSON body as UpdateTaskBody: the model declares no
\* input field and no "extra" setting, so a key it does not declare is dropped
ParseBody(raw) ==
    [status_code |-> raw.status_code,
     progress_percentage |-> raw.progress_percentage,
     scheduled_start_timestamp |-> raw.scheduled_start_timestamp]

\* Bodies with integers no status and no percentage has: UpdateTaskBody
\* declares both fields as "int | None", with no bounds
WideBodies ==
    [status_code : {None, 1, 2, 4},
     progress_percentage : {None, 50, 101},
     scheduled_start_timestamp : {None}]

\* The bodies TaskBrokerClient sends: ack, nack, fail and reschedule
NoFields ==
    [status_code |-> None, progress_percentage |-> None,
     scheduled_start_timestamp |-> None]

AckBody == [NoFields EXCEPT !.status_code = 2]

NackBody == [NoFields EXCEPT !.status_code = 0]

FailBody == [NoFields EXCEPT !.status_code = 3]

RescheduleBody(ts) ==
    [NoFields EXCEPT !.status_code = 0, !.scheduled_start_timestamp = ts]

\* provided_fields = fields of the body that are not None
ProvidedFields(body) ==
    {f \in {"status_code", "progress_percentage", "scheduled_start_timestamp"} :
        body[f] # None}

\* update_task, "Apply updates": the fields of the payload are assigned
ApplyPayload(row, body) ==
    [row EXCEPT
        !.progress_percentage =
            IF body.progress_percentage # None
            THEN body.progress_percentage ELSE @,
        !.scheduled_start_timestamp =
            IF body.scheduled_start_timestamp # None
            THEN body.scheduled_start_timestamp ELSE @,
        !.status_code =
            IF body.status_code # None THEN body.status_code ELSE @]

\* update_task, "Rules": timestamps and progress that follow from the status
ApplyRules(row, prev_status, t) ==
    [row EXCEPT
        !.modification_timestamp = t,
        !.start_timestamp =
            IF prev_status = 0 /\ row.status_code = 1 /\ @ = None THEN t ELSE @,
        !.end_timestamp = IF row.status_code \in {2, 3} THEN t ELSE @,
        !.progress_percentage = IF row.status_code = 2 THEN 100 ELSE @]

\* The row update_task commits for an accepted body
UpdatedTask(row, body) ==
    ApplyRules(ApplyPayload(row, body), row.status_code, now)

\* _update_task_fields(task_id, status_code=3, status=...) as _mark_task_failed
\* calls it
MarkedFailed(row) ==
    ApplyRules([row EXCEPT !.status_code = 3], row.status_code, now)

\* A task returns to Queued: the history of its current run is forgotten
Requeued(prev_status, row) == prev_status # 0 /\ row.status_code = 0

\* A broker between two rounds. In a round: now is the time the round began,
\* topics the topics still to visit, pairs the zip of the current topic, i the
\* position of the for loop in it, expired whether the session has expired
\* its objects since the batch queries, tStart the start_timestamp the
\* session holds for the task of the current pair.
IdleBroker ==
    [pc |-> "idle", now |-> 0, topics |-> {}, pairs |-> <<>>, i |-> 0,
     expired |-> TRUE, tStart |-> None]

\* The pair (consumer, task) the for loop of broker state s is at
CurrentPair(s) == s.pairs[s.i]

\* The endpoint_url the modelled worker process registers and serves
WorkerEndpoint == CHUNKING_SERVICE_URL

\* TaskManager.__init__ in a process that is not running: _inflight,
\* _available_slots, _ready_lock ("free", or the phase of the start() that
\* holds it), the start() coroutines scheduled (new) and waiting for the lock
\* (wait), and per task id the execute_task invocations awaiting work()
NoWorker ==
    [up |-> FALSE, inflight |-> {}, avail |-> max_concurrent, lock |-> "free",
     new |-> 0, wait |-> 0, handlers |-> [t \in TaskIds |-> 0]]

\* The process after its startup event: "await manager.start()" is to run
StartedWorker == [NoWorker EXCEPT !.up = TRUE, !.new = 1]

\* The index-document service before a parent task is handed to it: pc is
\* the position in consume/_run_pipeline, parent the id of the parent task,
\* input the submitted steps, steps the ordered_steps, k the position of the
\* for loop, tries the attempts of the current single step, child the task
\* _create_and_wait_task polls, chunks the length of the chunks list, posted
\* and kids the _one coroutines of the current fan-out that have posted and
\* that are still polling, parsed whether artifact_ctx holds parsed_s3_key
\* and document_parser_version, prev whether prev_output holds them
IdlePipeline ==
    [pc |-> "idle", parent |-> 0, input |-> <<>>, steps |-> <<>>, k |-> 0,
     tries |-> 0, child |-> 0, chunks |-> 0, posted |-> 0, kids |-> {},
     parsed |-> FALSE, prev |-> FALSE]

InitWith(bs, w) ==
    /\ wk = w
    /\ orch = IdlePipeline
    /\ now = 0
    /\ tasks = <<>>
    /\ consumers = << >>
    /\ brokers = bs
    /\ brk = [b \in AllBrokers |-> IdleBroker]
    /\ dispatchQ = {}
    /\ leaseCount = [t \in TaskIds |-> 0]
    /\ runLeases = [t \in TaskIds |-> [b \in AllBrokers |-> 0]]

\* One task-service process
Init == InitWith({"b1"}, NoWorker)

\* Two task-service processes on the same store
InitTwo == InitWith(AllBrokers, NoWorker)

\* One task-service process and the chunking worker
InitWorker == InitWith({"b1"}, StartedWorker)

\* The broker that holds the row lock of consumer e (SELECT ... FOR UPDATE
\* until commit or rollback), if any
LockHolders(e) ==
    {b \in brokers : brk[b].pc \in {"locked", "read"}
                     /\ CurrentPair(brk[b]).consumer = e}

\* runLeases once the row of task t is replaced by row
RunLeasesAfter(t, row) ==
    IF Requeued(tasks[t].status_code, row)
    THEN [runLeases EXCEPT ![t] = [b \in AllBrokers |-> 0]]
    ELSE runLeases

\* time.time() advances
Tick ==
    /\ now < MaxTime
    /\ now' = now + 1
    /\ UNCHANGED <<tasks, consumers, brokers, brk, dispatchQ, leaseCount,
                   runLeases, wk, orch>>

\* POST /task (at most cap tasks are submitted)
CreateTask(name, sched, cap) ==
    /\ Len(tasks) < cap
    /\ tasks' = Append(tasks, NewTask(name, sched))
    /\ UNCHANGED <<now, consumers, brokers, brk, dispatchQ, leaseCount,
                   runLeases, wk, orch>>

\* Inputs that hold a key "task_id": entry v names the task with id v
TaskIdInputs == <<"task_id 1", "task_id 2">>

\* input.get("task_id")
InputTaskId(input) ==
    IF \E v \in 1..Len(TaskIdInputs) : TaskIdInputs[v] = input
    THEN CHOOSE v \in 1..Len(TaskIdInputs) : TaskIdInputs[v] = input
    ELSE None

\* POST /task with an input of the submitter's choice: any JSON object is
\* stored; an input with the key task_id names a task of the store
CreateTaskWith(name, input, cap) ==
    /\ Len(tasks) < cap
    /\ InputTaskId(input) # None => InputTaskId(input) <= Len(tasks)
    /\ tasks' = Append(tasks, [NewTask(name, None) EXCEPT !.input = input])
    /\ UNCHANGED <<now, consumers, brokers, brk, dispatchQ, leaseCount,
                   runLeases, wk, orch>>

\* PUT /task/{task_id}. A body without fields is answered 400 and nothing is
\* read or written; every other body of UpdateTaskBody is applied.
UpdateTask(t, body) ==
    /\ t \in 1..Len(tasks)
    /\ ProvidedFields(body) # {}
    /\ tasks' = [tasks EXCEPT ![t] = UpdatedTask(tasks[t], body)]
    /\ runLeases' = RunLeasesAfter(t, UpdatedTask(tasks[t], body))
    /\ UNCHANGED <<now, consumers, brokers, brk, dispatchQ, leaseCount, wk,
                   orch>>

\* The status of the response to PUT /task/{task_id} with the JSON body raw:
\* 400 without updatable fields, 404 for an unknown id, else 200
UpdateStatus(t, raw) ==
    IF ProvidedFields(ParseBody(raw)) = {} THEN 400
    ELSE IF t \notin 1..Len(tasks) THEN 404
    ELSE 200

\* PUT /task/{task_id} as a client sends it: the body is parsed, and unless
\* the request is answered 400 or 404 update_task applies the parsed body
PutTask(t, raw) ==
    IF UpdateStatus(t, raw) = 200
    THEN UpdateTask(t, ParseBody(raw))
    ELSE UNCHANGED vars

\* The table after put_consumer(endpoint_url = e, ready)
Registered(e, ready) ==
    [x \in (DOMAIN consumers) \cup {e} |->
        IF x = e
        THEN [topic |-> EndpointTopic(e), is_ready |-> ready]
        ELSE consumers[x]]

\* PUT /consumer: insert the row, or update topic and is_ready. The UPDATE of
\* a row a broker holds FOR UPDATE waits for that broker's commit.
PutConsumer(e, ready) ==
    /\ LockHolders(e) = {}
    /\ consumers' = Registered(e, ready)
    /\ UNCHANGED <<now, tasks, brokers, brk, dispatchQ, leaseCount,
                   runLeases, wk, orch>>

\* The table without the rows of the endpoints in es
WithoutConsumers(es) == [x \in (DOMAIN consumers) \ es |-> consumers[x]]

\* DELETE /consumer
DeleteConsumer(e) ==
    /\ e \in DOMAIN consumers
    /\ LockHolders(e) = {}
    /\ consumers' = WithoutConsumers({e})
    /\ UNCHANGED <<now, tasks, brokers, brk, dispatchQ, leaseCount,
                   runLeases, wk, orch>>

\* _prune_unhealthy_consumers: the consumers whose health check failed (status
\* not 200/204, or an error) are deleted; bad is the set of those.
PruneUnhealthyConsumers(bad) ==
    /\ bad # {}
    /\ bad \subseteq DOMAIN consumers
    /\ \A e \in bad : LockHolders(e) = {}
    /\ consumers' = WithoutConsumers(bad)
    /\ UNCHANGED <<now, tasks, brokers, brk, dispatchQ, leaseCount,
                   runLeases, wk, orch>>

\* What httpx.get(c.health_url, timeout=2.0) gives for a consumer: the status
\* code of the response, or 0 when the call raises (timeout, refused)
HealthAnswers == {0, 200, 202, 204, 503}

\* The consumers one pass deletes, health being the answer of each health_url:
\* r.status_code not in (200, 204), or the except branch
Pruned(health) ==
    {e \in DOMAIN consumers : health[e] \notin {200, 204}}

\* One pass of _prune_unhealthy_consumers over the registered consumers, its
\* deletes taking effect at the db.commit() that ends the pass
PrunePass(health) == PruneUnhealthyConsumers(Pruned(health))

\* ---------------------------------------------------------------- broker
\* The sequences over S that are in ascending order of
\* scheduled_start_timestamp: order_by(scheduled_start_timestamp.asc()) fixes
\* nothing else, so rows with equal timestamps come in any order.
FifoOrders(S) ==
    {s \in [1..Cardinality(S) -> S] :
        /\ \A i, j \in 1..Cardinality(S) : i # j => s[i] # s[j]
        /\ \A i, j \in 1..Cardinality(S) :
              i < j => tasks[s[i]].scheduled_start_timestamp
                          <= tasks[s[j]].scheduled_start_timestamp}

\* Ready consumers of the topic, ordered by endpoint_url, at most BatchLimit
ReadyConsumers(topic) ==
    LET ready == {e \in DOMAIN consumers :
                     consumers[e].topic = topic /\ consumers[e].is_ready}
        n == Min(Cardinality(ready), BatchLimit)
        sorted == CHOOSE s \in [1..Cardinality(ready) -> ready] :
                     \A i, j \in 1..Cardinality(ready) :
                        i < j => EndpointRank(s[i]) < EndpointRank(s[j])
    IN [i \in 1..n |-> sorted[i]]

\* A batch query that would leave out the tasks scheduled for this very second
EligibleTasksStrictlyPast(topic, t0) ==
    {t \in 1..Len(tasks) :
        /\ tasks[t].name = topic
        /\ tasks[t].status_code = 0
        /\ tasks[t].scheduled_start_timestamp < t0}

\* Tasks the batch query selects from: name = topic, status_code = 0,
\* scheduled_start_timestamp <= now (the now of this assignment step)
EligibleTasks(topic, t0) ==
    {t \in 1..Len(tasks) :
        /\ tasks[t].name = topic
        /\ tasks[t].status_code = 0
        /\ tasks[t].scheduled_start_timestamp <= t0}

\* zip(consumers, tasks); each pair keeps what the session loaded of the task
ZipPairs(cs, ts) ==
    [i \in 1..Min(Len(cs), Len(ts)) |->
        [consumer |-> cs[i], task |-> ts[i],
         tStart |-> tasks[ts[i]].start_timestamp]]

\* _assign_once_fifo starts: now, a new session, the distinct topics
BrokerBegin(b) ==
    /\ brk[b].pc = "idle"
    /\ brk' = [brk EXCEPT ![b] =
                  [pc |-> "topics", now |-> now,
                   topics |-> {consumers[e].topic : e \in DOMAIN consumers},
                   pairs |-> <<>>, i |-> 0, expired |-> FALSE,
                   tStart |-> None]]
    /\ UNCHANGED <<now, tasks, consumers, brokers, dispatchQ, leaseCount,
                   runLeases, wk, orch>>

\* One iteration of "for topic in topics": the two batch queries and the zip
BrokerBatch(b, topic) ==
    /\ brk[b].pc = "topics"
    /\ topic \in brk[b].topics
    /\ LET cs == ReadyConsumers(topic)
           el == EligibleTasks(topic, brk[b].now)
       IN \E order \in FifoOrders(el) :
            LET ts == [i \in 1..Min(Len(cs), Cardinality(el)) |-> order[i]]
                ps == IF Len(cs) = 0 THEN <<>> ELSE ZipPairs(cs, ts)
            IN brk' = [brk EXCEPT ![b] =
                  [@ EXCEPT !.topics = @ \ {topic},
                            !.pairs = ps,
                            !.i = IF Len(ps) = 0 THEN 0 ELSE 1,
                            !.pc = IF Len(ps) = 0 THEN "topics" ELSE "pair",
                            !.expired = IF Len(ps) = 0 THEN @ ELSE FALSE]]
    /\ UNCHANGED <<now, tasks, consumers, brokers, dispatchQ, leaseCount,
                   runLeases, wk, orch>>

\* The session after db.rollback() or db.commit(): the lock is released,
\* every object expired, and the for loop goes on to the next pair
NextPair(s) ==
    IF s.i = Len(s.pairs)
    THEN [s EXCEPT !.pairs = <<>>, !.i = 0, !.pc = "topics",
                   !.expired = TRUE, !.tStart = None]
    ELSE [s EXCEPT !.i = @ + 1, !.pc = "pair",
                   !.expired = TRUE, !.tStart = None]

\* c.is_ready as the session sees it after the FOR UPDATE query. The query
\* does not populate_existing: an object the session loaded and has not
\* expired keeps the attributes of the batch query (is_ready = 1); after a
\* commit or rollback the object is expired and is loaded again.
SeenReady(s, e) == IF s.expired THEN consumers[e].is_ready ELSE TRUE

\* The lease guard on the consumer: "if not c or c.is_ready != 1: rollback"
ConsumerOk(s, e) == e \in DOMAIN consumers /\ SeenReady(s, e)

\* SELECT consumer ... FOR UPDATE for the next pair, and the check of c
BrokerLock(b) ==
    /\ brk[b].pc = "pair"
    /\ LET e == CurrentPair(brk[b]).consumer IN
       /\ LockHolders(e) = {}
       /\ brk' = [brk EXCEPT ![b] =
                     IF ConsumerOk(brk[b], e)
                     THEN [@ EXCEPT !.pc = "locked"]
                     ELSE NextPair(@)]
    /\ UNCHANGED <<now, tasks, consumers, brokers, dispatchQ, leaseCount,
                   runLeases, wk, orch>>

\* The lease guard on the task: the query filters id and status_code == 0
TaskOk(t) == tasks[t].status_code = 0

\* SELECT task WHERE id = ... AND status_code = 0 (no row lock), and "if not t"
BrokerReadTask(b) ==
    /\ brk[b].pc = "locked"
    /\ LET p == CurrentPair(brk[b]) IN
       brk' = [brk EXCEPT ![b] =
                  IF TaskOk(p.task)
                  THEN [@ EXCEPT !.pc = "read",
                                 !.tStart = IF brk[b].expired
                                            THEN tasks[p.task].start_timestamp
                                            ELSE p.tStart]
                  ELSE NextPair(@)]
    /\ UNCHANGED <<now, tasks, consumers, brokers, dispatchQ, leaseCount,
                   runLeases, wk, orch>>

\* A lease that would leave the task Queued
LeasedTaskStillQueued(row, t0, loadedStart) ==
    [row EXCEPT !.modification_timestamp = t0,
                !.start_timestamp = IF loadedStart = None THEN t0 ELSE @]

\* "Lease task": the UPDATE of the task row the commit flushes
LeasedTask(row, t0, loadedStart) ==
    [row EXCEPT !.status_code = 1,
                !.modification_timestamp = t0,
                !.start_timestamp = IF loadedStart = None THEN t0 ELSE @]

\* "Consume token": c.is_ready = 0
ConsumedToken(row) == [row EXCEPT !.is_ready = FALSE]

\* What follows the commit: the dispatch through REGISTRY, by task name
DispatchKind(name) ==
    LET entry == RegistryGet(name) IN
    IF entry.type = "http" THEN "http"
    ELSE IF entry.type = "internal" /\ entry.handler = "hello_world"
         THEN "internal"
         ELSE "failed"

\* The url the dispatch coroutine posts to: entry.get("url")
DispatchUrl(name, e) == RegistryGet(name).url

\* db.commit() of the lease, then the dispatch decision
BrokerCommit(b) ==
    /\ brk[b].pc = "read"
    /\ LET p == CurrentPair(brk[b])
           t == p.task
           e == p.consumer
           leased == LeasedTask(tasks[t], brk[b].now, brk[b].tStart)
           kind == DispatchKind(leased.name)
       IN
       /\ tasks' = [tasks EXCEPT ![t] =
                       IF kind = "failed" THEN MarkedFailed(leased) ELSE leased]
       /\ consumers' = [consumers EXCEPT ![e] = ConsumedToken(@)]
       /\ dispatchQ' =
             IF kind = "failed" THEN dispatchQ
             ELSE dispatchQ \cup {[task |-> t, kind |-> kind, consumer |-> e,
                                   url |-> DispatchUrl(leased.name, e)]}
       /\ leaseCount' = [leaseCount EXCEPT ![t] = Sat2(@)]
       /\ runLeases' = [runLeases EXCEPT ![t][b] = Sat2(@)]
    /\ brk' = [brk EXCEPT ![b] = NextPair(@)]
    /\ UNCHANGED <<now, brokers, wk, orch>>

\* The loop over the topics is over: db.close(), sleep until the next round
BrokerEnd(b) ==
    /\ brk[b].pc = "topics"
    /\ brk[b].topics = {}
    /\ brk' = [brk EXCEPT ![b] = IdleBroker]
    /\ UNCHANGED <<now, tasks, consumers, brokers, dispatchQ, leaseCount,
                   runLeases, wk, orch>>

\* ---------------------------------------------------------- slot manager
\* A capacity() that would never report a full worker
CapacityNeverZero(w) == max_concurrent

\* TaskManager.capacity()
Capacity(w) == IF max_concurrent - Cardinality(w.inflight) > 0
               THEN max_concurrent - Cardinality(w.inflight) ELSE 0

\* asyncio.create_task(self.start())
ScheduleStart(w) == [w EXCEPT !.new = Min(@ + 1, MaxStarts)]

\* An acceptance that would leave the next advertisement to the completion
AcceptedWithoutStart(w, t) ==
    [w EXCEPT !.inflight = @ \cup {t}, !.handlers[t] = @ + 1]

\* execute_task up to "await work(task_payload)", capacity left: the id joins
\* _inflight, and start() is scheduled if _available_slots > 0
Accepted(w, t) ==
    LET a == [w EXCEPT !.inflight = @ \cup {t}, !.handlers[t] = @ + 1]
    IN IF w.avail > 0 THEN ScheduleStart(a) ELSE a

\* The finally block of execute_task
Released(w, t) ==
    LET left == w.inflight \ {t}
    IN ScheduleStart(
          [w EXCEPT !.inflight = left,
                    !.handlers[t] = @ - 1,
                    !.avail = Min(@ + 1, max_concurrent - Cardinality(left))])

\* payload["task_id"] of {"task_id": str(t.id), **(t.input or {})}: a key of
\* the input replaces the key written before it
PayloadTaskId(t) ==
    IF InputTaskId(tasks[t].input) # None THEN InputTaskId(tasks[t].input)
    ELSE t

\* _run_http_dispatch_worker_async: POST {task_id, **input} to entry["url"].
\* Where the worker process listens on that url the request runs its handler,
\* manager.execute_task, up to its first suspension: without capacity the
\* task payload["task_id"] is nacked (PUT status_code 0), otherwise it is
\* taken in flight. A failing POST is swallowed ("except Exception: pass").
DispatchPost(m) ==
    /\ m \in dispatchQ
    /\ m.kind = "http"
    /\ dispatchQ' = dispatchQ \ {m}
    /\ IF wk.up /\ m.url = WorkerEndpoint
       THEN LET id == PayloadTaskId(m.task)
            IN IF Capacity(wk) <= 0
               THEN /\ tasks' = [tasks EXCEPT
                                    ![id] = UpdatedTask(@, NackBody)]
                    /\ runLeases' =
                          RunLeasesAfter(id, UpdatedTask(tasks[id], NackBody))
                    /\ UNCHANGED wk
               ELSE /\ wk.handlers[id] < MaxHandlers
                    /\ wk' = Accepted(wk, id)
                    /\ UNCHANGED <<tasks, runLeases>>
       ELSE UNCHANGED <<tasks, runLeases, wk>>
    /\ UNCHANGED <<now, consumers, brokers, brk, leaseCount, orch>>

\* The dispatch POST of task t has reached the worker and has no response
\* yet: the route handler is at "result = await manager.execute_task(input,
\* work)" and builds its response from the value execute_task returns
DispatchOpen(t) == wk.handlers[t] > 0

\* A scheduled start() runs: the first check of _available_slots, then
\* "async with self._ready_lock" (taken at once when free), the second check
\* and the PUT /consumer request; or it queues for the lock
StartRun ==
    /\ wk.new > 0
    /\ wk' = IF wk.avail <= 0
             THEN [wk EXCEPT !.new = @ - 1]
             ELSE IF wk.lock = "free"
                  THEN [wk EXCEPT !.new = @ - 1, !.lock = "put"]
                  ELSE [wk EXCEPT !.new = @ - 1,
                                  !.wait = Min(@ + 1, MaxStarts)]
    /\ UNCHANGED <<now, tasks, consumers, brokers, brk, dispatchQ, leaseCount,
                   runLeases, orch>>

\* A start() that sends the PUT as soon as it has the lock
StartLockedNoRecheck ==
    /\ wk.wait > 0
    /\ wk.lock = "free"
    /\ wk' = [wk EXCEPT !.wait = @ - 1, !.lock = "put"]
    /\ UNCHANGED <<now, tasks, consumers, brokers, brk, dispatchQ, leaseCount,
                   runLeases, orch>>

\* A start() waiting for _ready_lock gets it: the re-check, then the PUT
StartLocked ==
    /\ wk.wait > 0
    /\ wk.lock = "free"
    /\ wk' = IF wk.avail <= 0
             THEN [wk EXCEPT !.wait = @ - 1]
             ELSE [wk EXCEPT !.wait = @ - 1, !.lock = "put"]
    /\ UNCHANGED <<now, tasks, consumers, brokers, brk, dispatchQ, leaseCount,
                   runLeases, orch>>

\* The task-service serves the PUT /consumer of broker.ready()
ReadyPut ==
    /\ wk.lock = "put"
    /\ LockHolders(WorkerEndpoint) = {}
    /\ consumers' = Registered(WorkerEndpoint, TRUE)
    /\ wk' = [wk EXCEPT !.lock = "resp"]
    /\ UNCHANGED <<now, tasks, brokers, brk, dispatchQ, leaseCount,
                   runLeases, orch>>

\* broker.ready() returns: "self._available_slots -= 1", the lock is released
ReadyOk ==
    /\ wk.lock = "resp"
    /\ wk' = [wk EXCEPT !.avail = @ - 1, !.lock = "free"]
    /\ UNCHANGED <<now, tasks, consumers, brokers, brk, dispatchQ, leaseCount,
                   runLeases, orch>>

\* broker.ready() raises (the response is lost or late): after the backoff
\* the loop sends the PUT again
ReadyError ==
    /\ wk.lock = "resp"
    /\ wk' = [wk EXCEPT !.lock = "put"]
    /\ UNCHANGED <<now, tasks, consumers, brokers, brk, dispatchQ, leaseCount,
                   runLeases, orch>>

\* work() of an invocation for task t ends: broker.ack (work returned) or
\* broker.fail (work raised) is served by the task-service, then the finally
\* block runs
HandlerFinish(t, body) ==
    /\ wk.handlers[t] > 0
    /\ tasks' = [tasks EXCEPT ![t] = UpdatedTask(@, body)]
    /\ runLeases' = RunLeasesAfter(t, UpdatedTask(tasks[t], body))
    /\ wk' = Released(wk, t)
    /\ UNCHANGED <<now, consumers, brokers, brk, dispatchQ, leaseCount, orch>>

\* The row of a task after a PUT that was sent with body: written when the
\* task-service applied it, unchanged when the request did not get through
AfterPut(row, body, applied) ==
    IF applied THEN UpdatedTask(row, body) ELSE row

\* work() of an invocation for task t returned and broker.ack raises (an
\* error answer, or no answer in time): "except Exception" sends broker.fail,
\* then the finally block runs. acked: the task-service applied the ack
\* although the client saw an error; failed: it applied the fail.
HandlerFinishAckError(t, acked, failed) ==
    /\ wk.handlers[t] > 0
    /\ LET row == AfterPut(AfterPut(tasks[t], AckBody, acked),
                           FailBody, failed)
       IN /\ tasks' = [tasks EXCEPT ![t] = row]
          /\ runLeases' = RunLeasesAfter(t, row)
    /\ wk' = Released(wk, t)
    /\ UNCHANGED <<now, consumers, brokers, brk, dispatchQ, leaseCount, orch>>

\* work() raised and broker.fail raises in the except branch: the finally
\* block runs and the exception leaves execute_task
HandlerFinishFailError(t, failed) ==
    /\ wk.handlers[t] > 0
    /\ LET row == AfterPut(tasks[t], FailBody, failed)
       IN /\ tasks' = [tasks EXCEPT ![t] = row]
          /\ runLeases' = RunLeasesAfter(t, row)
    /\ wk' = Released(wk, t)
    /\ UNCHANGED <<now, consumers, brokers, brk, dispatchQ, leaseCount, orch>>

\* ---------------------------------------------------------- orchestrator
\* Step names of the pipeline, in the order of the priority table
StepOrder == <<"parse-document", "chunk", "redact", "embed", "index">>

StepNames == {StepOrder[i] : i \in 1..Len(StepOrder)}

\* priority.get(name, 5) of _canonicalize_steps
Priority(name) ==
    IF name \in StepNames
    THEN (CHOOSE i \in 1..Len(StepOrder) : StepOrder[i] = name) - 1
    ELSE 5

\* The steps a submitter can list: sequences of distinct step names
StepLists ==
    UNION {{l \in [1..n -> StepNames] :
               \A i, j \in 1..n : i # j => l[i] # l[j]} : n \in 0..MaxSteps}

\* Step names a submitter can list: two known to _canonicalize_steps and two
\* unknown to it
ListedNames == {"chunk", "index", "summarize", "translate"}

\* The lists over these names, repetitions included
ListedSteps == UNION {[1..n -> ListedNames] : n \in 0..MaxListed}

\* An insertion that puts step before the entries of equal key
RECURSIVE SortedInsertUnstable(_, _)
SortedInsertUnstable(sortedSteps, step) ==
    IF sortedSteps = <<>> THEN <<step>>
    ELSE IF Priority(sortedSteps[Len(sortedSteps)]) < Priority(step)
         THEN Append(sortedSteps, step)
         ELSE Append(SortedInsertUnstable(
                        SubSeq(sortedSteps, 1, Len(sortedSteps) - 1), step),
                     sortedSteps[Len(sortedSteps)])

\* One step of sorted(): step goes behind the last entry whose key is not
\* greater (the sort is stable)
RECURSIVE SortedInsert(_, _)
SortedInsert(sortedSteps, step) ==
    IF sortedSteps = <<>> THEN <<step>>
    ELSE IF Priority(sortedSteps[Len(sortedSteps)]) <= Priority(step)
         THEN Append(sortedSteps, step)
         ELSE Append(SortedInsert(SubSeq(sortedSteps, 1, Len(sortedSteps) - 1),
                                  step),
                     sortedSteps[Len(sortedSteps)])

\* The list in the order it was submitted
SubmittedOrder(steps) == steps

\* _canonicalize_steps: sorted(steps, key = priority)
RECURSIVE Canonicalize(_)
Canonicalize(steps) ==
    IF steps = <<>> THEN <<>>
    ELSE SortedInsert(Canonicalize(SubSeq(steps, 1, Len(steps) - 1)),
                      steps[Len(steps)])

\* The steps _run_pipeline runs as a fan-out over the chunks
FanoutSteps == {"redact", "embed", "index"}

\* "while tries < 3"
MaxTries == 3

\* The s3_key of the input of a child task: the key of the submitted
\* document (root_ctx), or the key of the parsed document
SourceKeyInput == "s3_key"
ParsedKeyInput == "parsed_s3_key"

\* The input of the child of a step that is neither parse-document nor chunk
ContextInput == "context"

\* The input of a child of a fan-out
ChunkIdInput == "chunk_id"

\* A chunk step that always reads the submitted document
StepInputSourceOnly(name, o) ==
    IF name \in {"parse-document", "chunk"} THEN SourceKeyInput
    ELSE ContextInput

\* step_input of _create_and_wait_task: redacted_s3_key is in no artifact_ctx
\* and in no output of a parse-document task
StepInput(name, o) ==
    IF name = "parse-document" THEN SourceKeyInput
    ELSE IF name = "chunk"
         THEN IF o.parsed \/ o.prev THEN ParsedKeyInput ELSE SourceKeyInput
         ELSE ContextInput

\* The row POST /task inserts for a child task of a step
ChildTask(name, input) == [NewTask(name, None) EXCEPT !.input = input]

\* The children of the parent that carry the name of a step, by id
Children(name) ==
    {t \in 1..Len(tasks) : t > orch.parent /\ orch.parent > 0
                            /\ tasks[t].name = name}

\* The broker leases a submitted index-document task whose input lists steps
\* and the dispatcher posts it to the service: consume() builds the
\* PipelineDefinition and _run_pipeline orders the steps
PipelineDelivered(steps) ==
    /\ orch.pc = "idle"
    /\ tasks' = Append(tasks,
                       LeasedTask(NewTask("index-document", None), now, None))
    /\ orch' = [IdlePipeline EXCEPT !.pc = "loop",
                                    !.parent = Len(tasks) + 1,
                                    !.input = steps,
                                    !.steps = Canonicalize(steps),
                                    !.k = 1]
    /\ UNCHANGED <<now, consumers, brokers, brk, dispatchQ, leaseCount,
                   runLeases, wk>>

\* The fan-out has returned: redact and embed leave the chunks list in
\* prev_output, the loop goes on
AfterFanout(o) ==
    [o EXCEPT !.pc = "loop", !.k = @ + 1,
              !.prev = IF o.steps[o.k] \in {"redact", "embed"}
                       THEN FALSE ELSE @]

\* "for step in ordered_steps": the loop is over, or the step is a fan-out
\* (over no chunk: gather() of nothing returns), or an attempt of a single
\* step posts a fresh child task
PipelineStep ==
    /\ orch.pc = "loop"
    /\ IF orch.k > Len(orch.steps)
       THEN /\ orch' = [orch EXCEPT !.pc = "returned"]
            /\ UNCHANGED tasks
       ELSE IF orch.steps[orch.k] \in FanoutSteps
            THEN /\ orch' = IF orch.chunks = 0
                            THEN AfterFanout(orch)
                            ELSE [orch EXCEPT !.pc = "fanout", !.posted = 0,
                                              !.kids = {}]
                 /\ UNCHANGED tasks
            ELSE /\ tasks' = Append(tasks,
                                    ChildTask(orch.steps[orch.k],
                                              StepInput(orch.steps[orch.k],
                                                        orch)))
                 /\ orch' = [orch EXCEPT !.pc = "single",
                                         !.tries = @ + 1,
                                         !.child = Len(tasks) + 1]
    /\ UNCHANGED <<now, consumers, brokers, brk, dispatchQ, leaseCount,
                   runLeases, wk>>

\* A retry loop that goes on to the next step after the last attempt
AfterAttemptFailedGoesOn(o) ==
    IF o.tries >= MaxTries
    THEN [o EXCEPT !.pc = "loop", !.k = @ + 1, !.tries = 0, !.child = 0]
    ELSE [o EXCEPT !.pc = "loop", !.child = 0]

\* A retry loop that gives up at the first failed attempt
AfterAttemptFailedGivesUp(o) == [o EXCEPT !.pc = "raised", !.child = 0]

\* The except branch of the retry loop: raise after the third attempt,
\* otherwise sleep and try again
AfterAttemptFailed(o) ==
    IF o.tries >= MaxTries
    THEN [o EXCEPT !.pc = "raised", !.child = 0]
    ELSE [o EXCEPT !.pc = "loop", !.child = 0]

\* The single step is over: artifacts are kept, the loop goes on. n is the
\* length of output["chunks"] of a chunk task (0 for the other steps), key
\* whether the output holds parsed_s3_key and document_parser_version.
AfterAttemptSucceeded(o, n, key) ==
    [o EXCEPT !.pc = "loop", !.k = @ + 1, !.tries = 0, !.child = 0,
              !.chunks = IF n > 0 THEN n ELSE @,
              !.parsed = IF o.steps[o.k] = "parse-document" /\ key
                         THEN TRUE ELSE @,
              !.prev = key]

\* _create_and_wait_task polls GET /task/{id}: code 2 returns the output,
\* code 3 raises, any other code polls again
PollSingle(n, key) ==
    /\ orch.pc = "single"
    /\ tasks[orch.child].status_code \in {2, 3}
    /\ n > 0 => orch.steps[orch.k] = "chunk"
    /\ key => orch.steps[orch.k] = "parse-document"
                 /\ tasks[orch.child].status_code = 2
    /\ orch' = IF tasks[orch.child].status_code = 2
               THEN AfterAttemptSucceeded(orch, n, key)
               ELSE AfterAttemptFailed(orch)
    /\ UNCHANGED <<now, tasks, consumers, brokers, brk, dispatchQ, leaseCount,
                   runLeases, wk>>

\* A coroutine _one of the fan-out posts its child task
FanoutPost ==
    /\ orch.pc = "fanout"
    /\ orch.posted < orch.chunks
    /\ tasks' = Append(tasks, ChildTask(orch.steps[orch.k], ChunkIdInput))
    /\ orch' = [orch EXCEPT !.posted = @ + 1,
                            !.kids = @ \cup {Len(tasks) + 1}]
    /\ UNCHANGED <<now, consumers, brokers, brk, dispatchQ, leaseCount,
                   runLeases, wk>>

\* A coroutine _one that returns whatever the code of its child is
FanoutPollIgnoresFailure(c) ==
    /\ orch.pc = "fanout"
    /\ c \in orch.kids
    /\ tasks[c].status_code \in {2, 3}
    /\ orch' = [orch EXCEPT !.kids = @ \ {c}]
    /\ UNCHANGED <<now, tasks, consumers, brokers, brk, dispatchQ, leaseCount,
                   runLeases, wk>>

\* A coroutine _one polls its child: code 2 returns, code 3 raises and
\* gather() hands the exception to _run_pipeline at once
FanoutPoll(c) ==
    /\ orch.pc = "fanout"
    /\ c \in orch.kids
    /\ tasks[c].status_code \in {2, 3}
    /\ orch' = IF tasks[c].status_code = 2
               THEN [orch EXCEPT !.kids = @ \ {c}]
               ELSE [orch EXCEPT !.pc = "raised"]
    /\ UNCHANGED <<now, tasks, consumers, brokers, brk, dispatchQ, leaseCount,
                   runLeases, wk>>

\* "await asyncio.gather(*tasks)" returns: every _one has returned
FanoutDone ==
    /\ orch.pc = "fanout"
    /\ orch.posted = orch.chunks
    /\ orch.kids = {}
    /\ orch' = AfterFanout(orch)
    /\ UNCHANGED <<now, tasks, consumers, brokers, brk, dispatchQ, leaseCount,
                   runLeases, wk>>

\* An execute_task that acknowledges whatever work() did
FinishBodyAlwaysAck(pc) == AckBody

\* What execute_task sends for the parent: ack when work() returned, fail
\* when it raised
FinishBody(pc) == IF pc = "returned" THEN AckBody ELSE FailBody

\* execute_task of the parent after work(): broker.ack or broker.fail
PipelineFinish ==
    /\ orch.pc \in {"returned", "raised"}
    /\ tasks' = [tasks EXCEPT
                    ![orch.parent] = UpdatedTask(@, FinishBody(orch.pc))]
    /\ orch' = [orch EXCEPT !.pc = IF orch.pc = "returned"
                                   THEN "acked" ELSE "failed"]
    /\ UNCHANGED <<now, consumers, brokers, brk, dispatchQ, leaseCount,
                   runLeases, wk>>

\* The worker of a child task ends it: execute_task sends ack or fail for it
ChildEnds(t, body) ==
    /\ t \in 1..Len(tasks)
    /\ t # orch.parent
    /\ tasks[t].status_code \in {0, 1}
    /\ tasks' = [tasks EXCEPT ![t] = UpdatedTask(@, body)]
    /\ UNCHANGED <<now, consumers, brokers, brk, dispatchQ, leaseCount,
                   runLeases, wk, orch>>

\* The index-document service running one pipeline, and the workers of the
\* child tasks
NextPipeline ==
    \/ \E steps \in StepLists : PipelineDelivered(steps)
    \/ PipelineStep
    \/ \E n \in 0..MaxChunks, key \in BOOLEAN : PollSingle(n, key)
    \/ FanoutPost
    \/ \E c \in orch.kids : FanoutPoll(c)
    \/ FanoutDone
    \/ PipelineFinish
    \/ \E t \in 1..Len(tasks), body \in {AckBody, FailBody} : ChildEnds(t, body)

\* The worker process: its start() coroutines and its handlers
Worker ==
    \/ StartRun
    \/ StartLocked
    \/ ReadyPut
    \/ ReadyOk
    \/ ReadyError
    \/ \E t \in TaskIds, body \in {AckBody, FailBody} : HandlerFinish(t, body)

\* _broker_assignment_loop of every running instance
Brokers ==
    \/ \E b \in brokers : BrokerBegin(b)
    \/ \E b \in brokers, topic \in Topics : BrokerBatch(b, topic)
    \/ \E b \in brokers : BrokerLock(b)
    \/ \E b \in brokers : BrokerReadTask(b)
    \/ \E b \in brokers : BrokerCommit(b)
    \/ \E b \in brokers : BrokerEnd(b)

\* The task-service API of the consumer registry, the pruner, the clock
RegistryApi ==
    \/ Tick
    \/ \E e \in Endpoints, ready \in BOOLEAN : PutConsumer(e, ready)
    \/ \E e \in Endpoints : DeleteConsumer(e)
    \/ \E bad \in SUBSET Endpoints : PruneUnhealthyConsumers(bad)

\* Submitters, consumers registering and deregistering, the brokers and the
\* dispatcher; the submitted tasks get no update from their workers
Next ==
    \/ RegistryApi
    \/ \E name \in Topics, sched \in {None} \cup (0..MaxTime) :
          CreateTask(name, sched, MaxBrokerTasks)
    \/ Brokers
    \/ \E m \in dispatchQ : DispatchPost(m)

\* The same with every body PUT /task/{id} accepts, on the topic "chunk"
NextStore ==
    \/ Tick
    \/ \E ready \in BOOLEAN : PutConsumer(CHUNKING_SERVICE_URL, ready)
    \/ \E sched \in {None} \cup (0..MaxTime) :
          CreateTask("chunk", sched, MaxStoreTasks)
    \/ \E t \in TaskIds, body \in UpdateBodies : UpdateTask(t, body)
    \/ Brokers
    \/ \E m \in dispatchQ : DispatchPost(m)

\* The same with the JSON bodies as clients send them
NextPut ==
    \/ Tick
    \/ \E ready \in BOOLEAN : PutConsumer(CHUNKING_SERVICE_URL, ready)
    \/ \E sched \in {None} \cup (0..MaxTime) :
          CreateTask("chunk", sched, MaxStoreTasks)
    \/ \E t \in TaskIds, raw \in RawBodies : PutTask(t, raw)
    \/ Brokers
    \/ \E m \in dispatchQ : DispatchPost(m)

\* Submitters and workers that register as ready and never withdraw; no task
\* gets an update from a client
NextPoll ==
    \/ Tick
    \/ \E e \in {CHUNKING_SERVICE_URL, CUSTOM_SERVICE_URL} :
          PutConsumer(e, TRUE)
    \/ \E name \in Topics, sched \in {None} \cup (0..MaxTime) :
          CreateTask(name, sched, MaxBrokerTasks)
    \/ Brokers
    \/ \E m \in dispatchQ : DispatchPost(m)

\* The task store with clients that send any integer as status_code and
\* progress_percentage
NextWide ==
    \/ Tick
    \/ \E ready \in BOOLEAN : PutConsumer(CHUNKING_SERVICE_URL, ready)
    \/ \E sched \in {None} \cup (0..MaxTime) :
          CreateTask("chunk", sched, MaxStoreTasks)
    \/ \E t \in TaskIds, body \in WideBodies : UpdateTask(t, body)
    \/ Brokers
    \/ \E m \in dispatchQ : DispatchPost(m)

\* Submitters and the consumers of the topic "chunk", for two brokers
NextTwo ==
    \/ Tick
    \/ \E e \in {CHUNKING_SERVICE_URL, CHUNKING_SERVICE_URL_B} :
          PutConsumer(e, TRUE)
    \/ \E sched \in {None} \cup (0..MaxTime) :
          CreateTask("chunk", sched, MaxBrokerTasks)
    \/ Brokers
    \/ \E m \in dispatchQ : DispatchPost(m)

\* A submitter, one broker, the chunking worker, and a client that puts the
\* first task back in the queue (PUT /task/{id} with status_code 0)
NextWorker ==
    \/ CreateTask("chunk", None, MaxTasks)
    \/ UpdateTask(1, NackBody)
    \/ Brokers
    \/ \E m \in dispatchQ : DispatchPost(m)
    \/ Worker

\* A submitter, one broker and the chunking worker, whose ack and fail
\* requests may end in an error
NextAck ==
    \/ CreateTask("chunk", None, MaxBrokerTasks)
    \/ Brokers
    \/ \E m \in dispatchQ : DispatchPost(m)
    \/ Worker
    \/ \E t \in TaskIds, acked, failed \in BOOLEAN :
          HandlerFinishAckError(t, acked, failed)
    \/ \E t \in TaskIds, failed \in BOOLEAN : HandlerFinishFailError(t, failed)

\* A submitter, one broker and the chunking worker while its handlers run:
\* no work() ends, every PUT /consumer is answered
NextBusy ==
    \/ CreateTask("chunk", None, MaxTasks)
    \/ Brokers
    \/ \E m \in dispatchQ : DispatchPost(m)
    \/ StartRun
    \/ StartLocked
    \/ ReadyPut
    \/ ReadyOk

\* Workers of the topic "chunk" registering, a submitter, the broker and the
\* health loop of the task-service
NextPruner ==
    \/ \E e \in {CHUNKING_SERVICE_URL, CHUNKING_SERVICE_URL_B},
          ready \in BOOLEAN : PutConsumer(e, ready)
    \/ \E health \in [DOMAIN consumers -> HealthAnswers] : PrunePass(health)
    \/ CreateTask("chunk", None, MaxBrokerTasks)
    \/ Brokers
    \/ \E m \in dispatchQ : DispatchPost(m)

\* One broker instance, its clients acting through the HTTP API
Spec == Init /\ [][Next]_vars

\* Two broker instances on the same store
SpecTwo == InitTwo /\ [][NextTwo]_vars

\* One broker instance and the task store under every update of a task
SpecStore == Init /\ [][NextStore]_vars

\* One broker instance and the chunking worker with its slot manager
SpecWorker == InitWorker /\ [][NextWorker]_vars

\* The index-document service running the pipeline of one parent task
SpecPipeline == Init /\ [][NextPipeline]_vars

\* The task store behind its HTTP API
SpecPut == Init /\ [][NextPut]_vars

\* One broker whose loop keeps running: "while True" around _assign_once_fifo
\* and a sleep, every exception of a round caught. Nothing wakes the loop.
SpecPoll == Init /\ [][NextPoll]_vars /\ WF_vars(Brokers)

\* The task store and clients sending any integers
SpecWide == Init /\ [][NextWide]_vars

\* One broker and the chunking worker, with failing ack and fail requests
SpecAck == InitWorker /\ [][NextAck]_vars

\* The same with what keeps running: the broker loop, the dispatch
\* coroutines, the start() tasks of the worker's event loop, and the
\* task-service answering PUT /consumer
SpecBusy ==
    /\ InitWorker /\ [][NextBusy]_vars
    /\ WF_vars(Brokers)
    /\ WF_vars(\E m \in dispatchQ : DispatchPost(m))
    /\ WF_vars(StartRun) /\ WF_vars(StartLocked)
    /\ WF_vars(ReadyPut) /\ WF_vars(ReadyOk)

\* The children are run by one worker with one slot, which is given them in
\* the order of their creation: execute_task sends ack or fail
OldestChildEnds(body) ==
    \E t \in 1..Len(tasks) :
       /\ \A u \in 1..(t - 1) : u # orch.parent => tasks[u].status_code \in {2, 3}
       /\ ChildEnds(t, body)

\* The index-document service running the pipeline chunk, index of a short
\* or a long document, with a worker whose handlers return
NextFanout ==
    \/ PipelineDelivered(<<"chunk", "index">>)
    \/ PipelineStep
    \/ \E n \in {0, ManyChunks} : PollSingle(n, FALSE)
    \/ FanoutPost
    \/ \E c \in orch.kids : FanoutPoll(c)
    \/ FanoutDone
    \/ PipelineFinish
    \/ OldestChildEnds(AckBody)

\* One task-service process with its health loop
SpecPruner == Init /\ [][NextPruner]_vars

\* The index-document service on a long document
SpecFanout == Init /\ [][NextFanout]_vars

\* Submitters choosing the input, one broker and the chunking worker
NextPayload ==
    \/ \E input \in {SubmittedInput}
                      \cup {TaskIdInputs[v] : v \in 1..Len(TaskIdInputs)} :
          CreateTaskWith("chunk", input, MaxBrokerTasks)
    \/ Brokers
    \/ \E m \in dispatchQ : DispatchPost(m)
    \/ Worker

SpecPayload == InitWorker /\ [][NextPayload]_vars

\* The POST of the dispatcher raises (no connection, no answer within the
\* timeout) during an outage of the network that ends at MaxTime: "except
\* Exception: pass"
DispatchLost(m) ==
    /\ m \in dispatchQ
    /\ m.kind = "http"
    /\ now < MaxTime
    /\ dispatchQ' = dispatchQ \ {m}
    /\ UNCHANGED <<now, tasks, consumers, brokers, brk, leaseCount,
                   runLeases, wk, orch>>

\* One pass of the health loop: during the outage a health check can fail,
\* from MaxTime on every consumer answers 200
HealthLoopPass(health) ==
    /\ now >= MaxTime => \A e \in DOMAIN consumers : health[e] = 200
    /\ PrunePass(health)

\* A submitter, one broker with its health loop and the chunking worker,
\* which stays up and whose PUT requests are served
NextLive ==
    \/ Tick
    \/ CreateTask("chunk", None, MaxBrokerTasks)
    \/ Brokers
    \/ \E m \in dispatchQ : DispatchPost(m)
    \/ \E m \in dispatchQ : DispatchLost(m)
    \/ \E health \in [DOMAIN consumers -> HealthAnswers] :
          HealthLoopPass(health)
    \/ StartRun
    \/ StartLocked
    \/ ReadyPut
    \/ ReadyOk
    \/ \E t \in TaskIds, body \in {AckBody, FailBody} : HandlerFinish(t, body)

\* What keeps running: the clock, the broker loop, the dispatch coroutines,
\* the start() tasks and the handlers of the worker's event loop, and the
\* task-service answering the worker's requests
SpecLive ==
    /\ InitWorker /\ [][NextLive]_vars
    /\ WF_vars(Tick)
    /\ WF_vars(Brokers)
    /\ WF_vars(\E m \in dispatchQ : DispatchPost(m))
    /\ WF_vars(StartRun) /\ WF_vars(StartLocked)
    /\ WF_vars(ReadyPut) /\ WF_vars(ReadyOk)
    /\ WF_vars(\E t \in TaskIds, body \in {AckBody, FailBody} :
                  HandlerFinish(t, body))

\* The index-document service running a pipeline whose list repeats names
\* or holds unknown names
NextSteps ==
    \/ \E steps \in ListedSteps : PipelineDelivered(steps)
    \/ PipelineStep
    \/ \E n \in 0..MaxChunks : PollSingle(n, FALSE)
    \/ FanoutPost
    \/ \E c \in orch.kids : FanoutPoll(c)
    \/ FanoutDone
    \/ PipelineFinish
    \/ \E t \in 1..Len(tasks), body \in {AckBody, FailBody} : ChildEnds(t, body)

SpecSteps == Init /\ [][NextSteps]_vars

\* ---------------------------------------------------------------- claims
\* The step is the commit of a lease by broker b (BrokerCommit)
LeaseCommits(b) == brk[b].pc = "read" /\ brk'[b].pc # "read"

C2_NotLeasedByBoth ==
    \A t \in TaskIds : ~(runLeases[t]["b1"] >= 1 /\ runLeases[t]["b2"] >= 1)

\* C3 (as stated): a lease moves a task from Queued to Running only together
\* with the flip of is_ready from true to false on a registered consumer of
\* the task's topic; a consumer that is no longer ready is not leased a task.
C3_LeaseFlipsSetToken ==
    [][\A b \in brokers :
          LeaseCommits(b) =>
             LET p == CurrentPair(brk[b]) IN
             /\ p.consumer \in DOMAIN consumers
             /\ consumers[p.consumer].is_ready
             /\ consumers[p.consumer].topic = tasks[p.task].name
             /\ ~consumers'[p.consumer].is_ready]_vars

\* C4 (as stated): FIFO within a topic. A task is not leased while a task
\* with a smaller scheduled_start_timestamp, which the same assignment step
\* selected before it, is still Queued and eligible.
C4_FifoWithinTopic ==
    [][\A b \in brokers :
          LeaseCommits(b) =>
             LET s == brk[b]
                 B == tasks[CurrentPair(s).task]
             IN \A j \in 1..(s.i - 1) :
                   LET A == tasks[s.pairs[j].task] IN
                   ~ /\ A.status_code = 0
                     /\ A.scheduled_start_timestamp <= s.now
                     /\ A.scheduled_start_timestamp
                           < B.scheduled_start_timestamp]_vars

\* C5 (as stated): among Queued, eligible tasks of one topic with the same
\* scheduled_start_timestamp, the one with the smaller creation_timestamp is
\* leased first.
C5_TieBreakByCreation ==
    [][\A b \in brokers :
          LeaseCommits(b) =>
             LET s == brk[b]
                 B == tasks[CurrentPair(s).task]
             IN \A a \in EligibleTasks(B.name, s.now) :
                   ~ /\ tasks[a].scheduled_start_timestamp
                           = B.scheduled_start_timestamp
                     /\ tasks[a].creation_timestamp
                           < B.creation_timestamp]_vars

\* C6 (as stated): the broker never leases a task whose
\* scheduled_start_timestamp is greater than the time of the assignment step.
C6_NoLeaseBeforeSchedule ==
    [][\A b \in brokers :
          LeaseCommits(b) =>
             tasks[CurrentPair(brk[b]).task].scheduled_start_timestamp
                <= brk[b].now]_vars

\* The changes of status_code the lifecycle allows
AllowedTransitions == {<<0, 1>>, <<1, 2>>, <<1, 3>>, <<0, 3>>, <<0, 0>>}

\* C7 (as stated): status_code changes only along 0->1, 1->2, 1->3, 0->3 and
\* 0->0; Succeeded and Failed are absorbing.
C7_OnlyAllowedTransitions ==
    [][\A t \in 1..Len(tasks) :
          tasks'[t].status_code # tasks[t].status_code =>
             <<tasks[t].status_code, tasks'[t].status_code>>
                \in AllowedTransitions]_vars

\* C8 (as stated): the dispatch POST of a leased pair (task, consumer) is sent
\* to the endpoint_url of that consumer.
C8_PostToLeasedConsumer ==
    \A m \in dispatchQ : m.kind = "http" => m.url = m.consumer

\* C9 (as stated): routing is by topic string only; a task leased to a ready
\* consumer of its topic is dispatched and the broker never moves it to
\* Failed because of its topic name.
C9_LeaseNeverFails ==
    [][\A b \in brokers :
          LeaseCommits(b) =>
             /\ tasks'[CurrentPair(brk[b]).task].status_code = 1
             /\ \E m \in dispatchQ' :
                   m.task = CurrentPair(brk[b]).task]_vars

\* C10 (as stated): in every state of the worker's slot manager at most
\* max_concurrent tasks are in flight and _available_slots is within
\* 0..max_concurrent.
C10_SlotsInRange ==
    /\ Cardinality(wk.inflight) <= max_concurrent
    /\ wk.avail \in 0..max_concurrent

\* ------------------------------------------------- claims on the pipeline
\* The ids of the child tasks of the parent, in the order of their creation
ChildIds == IF orch.parent = 0 THEN {} ELSE (orch.parent + 1)..Len(tasks)

\* The steps the submitter listed
Requested == {orch.input[i] : i \in 1..Len(orch.input)}

\* The step has succeeded: a single step has a Succeeded child, every child
\* of a fan-out step is Succeeded and the fan-out is not under way
StepSucceeded(name) ==
    IF name \in FanoutSteps
    THEN /\ \A t \in Children(name) : tasks[t].status_code = 2
         /\ ~(orch.pc \in {"fanout", "raised", "failed"}
               /\ orch.k <= Len(orch.steps) /\ orch.steps[orch.k] = name)
         /\ \E i \in 1..Len(orch.steps) : orch.steps[i] = name /\ i < orch.k
    ELSE \E t \in Children(name) : tasks[t].status_code = 2

\* The step has finally failed: the three children of a single step are
\* Failed, or a child of a fan-out step is Failed
StepFailed(name) ==
    IF name \in FanoutSteps
    THEN \E t \in Children(name) : tasks[t].status_code = 3
    ELSE /\ Cardinality(Children(name)) = MaxTries
         /\ \A t \in Children(name) : tasks[t].status_code = 3

\* C11: whatever the order of the submitted steps, the child tasks are
\* created in the order parse-document, chunk, redact, embed, index, and no
\* child is created for a step that is not in the list.
C11_ChildrenInCanonicalOrder ==
    /\ \A t, u \in ChildIds :
          t < u => Priority(tasks[t].name) <= Priority(tasks[u].name)
    /\ \A t \in ChildIds : tasks[t].name \in Requested

\* C11: a finished pipeline whose list named embed before chunk, with
\* children of both steps
C11_ReorderedPipeline ==
    /\ orch.pc = "acked"
    /\ Len(orch.input) >= 2
    /\ orch.input[1] = "embed" /\ orch.input[2] = "chunk"
    /\ Children("embed") # {} /\ Children("chunk") # {}

SingleSteps == StepNames \ FanoutSteps

C15_PrunedIffNot2xx ==
    [][\A health \in [DOMAIN consumers -> HealthAnswers] :
          PrunePass(health) =>
              \A e \in DOMAIN consumers :
                  IF health[e] \in 200..299
                  THEN e \in DOMAIN consumers' /\ consumers'[e] = consumers[e]
                  ELSE e \notin DOMAIN consumers']_vars

\* ------------------------------------------------- claims on the timestamps
\* C16: once start_timestamp of a task is non-null, no later lease, NACK,
\* reschedule or update changes its value.
C16_StartSetOnce ==
    [][\A t \in 1..Len(tasks) :
          tasks[t].start_timestamp # None
              => tasks'[t].start_timestamp = tasks[t].start_timestamp]_vars

\* C17: in every state of the task store, end_timestamp of a task is non-null
\* if and only if its status_code is 2 (Succeeded) or 3 (Failed).
C17_EndIffTerminal ==
    \A t \in 1..Len(tasks) :
        (tasks[t].end_timestamp # None) <=> (tasks[t].status_code \in {2, 3})

\* a <= b for two timestamps that are both defined
Ordered(a, b) == a = None \/ b = None \/ a <= b

\* C18: for every task in every state, creation_timestamp <=
\* scheduled_start_timestamp <= start_timestamp <= end_timestamp holds for
\* those of the four timestamps that are defined.
C18_TimestampsOrdered ==
    \A t \in 1..Len(tasks) :
        /\ Ordered(tasks[t].creation_timestamp,
                   tasks[t].scheduled_start_timestamp)
        /\ Ordered(tasks[t].creation_timestamp, tasks[t].start_timestamp)
        /\ Ordered(tasks[t].creation_timestamp, tasks[t].end_timestamp)
        /\ Ordered(tasks[t].scheduled_start_timestamp,
                   tasks[t].start_timestamp)
        /\ Ordered(tasks[t].scheduled_start_timestamp,
                   tasks[t].end_timestamp)
        /\ Ordered(tasks[t].start_timestamp, tasks[t].end_timestamp)

\* --------------------------------------------------- claims on the progress
\* C19: in every state, a task has status_code 2 if and only if its
\* progress_percentage is 100 and its end_timestamp is non-null.
C19_SucceededIffComplete ==
    \A t \in 1..Len(tasks) :
        (tasks[t].status_code = 2)
            <=> (/\ tasks[t].progress_percentage = 100
                 /\ tasks[t].end_timestamp # None)

\* C20: no step lowers progress_percentage of a task whose start_timestamp is
\* set and is the same before and after the step.
C20_ProgressMonotonic ==
    [][\A t \in 1..Len(tasks) :
          (/\ tasks[t].start_timestamp # None
           /\ tasks'[t].start_timestamp = tasks[t].start_timestamp)
              => tasks'[t].progress_percentage
                     >= tasks[t].progress_percentage]_vars

\* ------------------------------------------------------ claims on the input
\* C21: the input of a task never changes after creation, and every
\* PUT /task/{id} whose body contains an input field is answered 400, also
\* when the body contains mutable fields next to it.
C21_InputWriteRejected ==
    [][/\ \A t \in 1..Len(tasks) : tasks'[t].input = tasks[t].input
       /\ \A t \in TaskIds, raw \in RawBodies :
             (raw.input # NoInput /\ PutTask(t, raw))
                 => UpdateStatus(t, raw) = 400]_vars

\* The first half of C21 alone: no step changes the input of a task
C21_InputNeverChanges ==
    [][\A t \in 1..Len(tasks) : tasks'[t].input = tasks[t].input]_vars

\* -------------------------------------------------- claims on the polling
\* A consumer of the topic is registered with its token set and a Queued task
\* of the topic is due
LeasePossible(topic) ==
    /\ \E e \in DOMAIN consumers :
          consumers[e].topic = topic /\ consumers[e].is_ready
    /\ \E t \in 1..Len(tasks) :
          /\ tasks[t].name = topic
          /\ tasks[t].status_code = 0
          /\ tasks[t].scheduled_start_timestamp <= now

\* The tasks of the topic that have been leased
LeasedOf(topic) ==
    {t \in 1..Len(tasks) : tasks[t].name = topic /\ leaseCount[t] > 0}

C24_FieldsInRange ==
    \A t \in 1..Len(tasks) :
        /\ tasks[t].status_code \in 0..3
        /\ tasks[t].progress_percentage \in 0..100

\* ---------------------------------------------------- claims on the worker
\* C23: the response of the worker to the dispatch POST precedes the ACK or
\* FAIL update of the task: when a task gets status_code 2 or 3, no dispatch
\* request for it is still without response.
C23_ResponseBeforeUpdate ==
    [][\A t \in 1..Len(tasks) :
          (tasks[t].status_code \notin {2, 3}
             /\ tasks'[t].status_code \in {2, 3})
              => ~DispatchOpen(t)]_vars

\* An execute_task invocation for task t ends in this step
InvocationEnds(t) == wk'.handlers[t] < wk.handlers[t]

\* C25: for every task a worker accepts, execute_task sends exactly one
\* terminal update (ACK when the handler returns, FAIL when it raises), and
\* in all cases, also when that request fails, the task id leaves in_flight,
\* available_tokens becomes min(available_tokens + 1, max_concurrent -
\* |in_flight|) and a new start() is scheduled.
C25_OneTerminalUpdate ==
    [][\A t \in 1..Len(tasks) :
          InvocationEnds(t) =>
              /\ tasks'[t] \in {tasks[t], UpdatedTask(tasks[t], AckBody),
                                 UpdatedTask(tasks[t], FailBody)}
              /\ wk' = Released(wk, t)]_vars

\* The second half of C25 alone: the finally block runs in all cases
C25_SlotAlwaysReleased ==
    [][\A t \in 1..Len(tasks) :
          InvocationEnds(t) => wk' = Released(wk, t)]_vars

\* The dispatch POST m reaches the worker in this step
Delivered(m) == DispatchPost(m) /\ wk.up /\ m.url = WorkerEndpoint

OneDispatchScheduled(b) ==
    /\ Cardinality(dispatchQ') = Cardinality(dispatchQ) + 1
    /\ \A m \in dispatchQ' \ dispatchQ :
          m.task = CurrentPair(brk[b]).task /\ m.kind = "http"

\* The dispatch POST m is sent in this step and fails: no process serves it
PostFails(m) == DispatchPost(m) /\ ~(wk.up /\ m.url = WorkerEndpoint)

\* A failed POST is not sent again and changes neither a token nor a task
Forgotten(m) ==
    /\ dispatchQ' = dispatchQ \ {m}
    /\ consumers' = consumers
    /\ tasks' = tasks

\* C27: each successful lease triggers exactly one dispatch POST; if that
\* POST fails the broker does not retry, does not restore the readiness
\* token of the consumer and does not change the task, which stays Running.
C27_OneDispatchNoRetry ==
    [][/\ \A b \in brokers : LeaseCommits(b) => OneDispatchScheduled(b)
       /\ \A m \in dispatchQ : PostFails(m) => Forgotten(m)]_vars

\* C27 for the leases of tasks whose name has an http entry in REGISTRY
C27_RegisteredDispatchNoRetry ==
    [][/\ \A b \in brokers :
             (LeaseCommits(b)
                /\ DispatchKind(tasks[CurrentPair(brk[b]).task].name) = "http")
                 => OneDispatchScheduled(b)
       /\ \A m \in dispatchQ : PostFails(m) => Forgotten(m)]_vars

\* ------------------------------------------------------ claims on the slots
\* The readiness token of the worker is set at the broker
TokenSet ==
    WorkerEndpoint \in DOMAIN consumers /\ consumers[WorkerEndpoint].is_ready

\* The worker is quiescent: nothing in flight, no start() scheduled, waiting
\* or running, and no lease or dispatch for it under way
Quiescent ==
    /\ wk.inflight = {}
    /\ \A t \in TaskIds : wk.handlers[t] = 0
    /\ wk.new = 0 /\ wk.wait = 0 /\ wk.lock = "free"
    /\ dispatchQ = {}
    /\ \A b \in brokers : brk[b].pc \notin {"pair", "locked", "read"}

\* C28: whenever the worker is quiescent, available_tokens plus 1 if its
\* readiness token is set at the broker equals max_concurrent: no capacity
\* is lost permanently.
C28_NoCapacityLost ==
    Quiescent => wk.avail + (IF TokenSet THEN 1 ELSE 0) = max_concurrent

\* start() sends PUT /consumer with ready = true in this step: the first
\* request of a start() that got the lock, or a retry after an error
ReadySent == wk.lock # "put" /\ wk'.lock = "put"

\* C29: the worker sends a readiness advertisement only while it has a free
\* slot, |in_flight| < max_concurrent, for every interleaving of start()
\* retries, lost or delayed PUT responses, dispatches and completions.
C29_ReadyOnlyWithFreeSlot ==
    [][ReadySent => Cardinality(wk.inflight) < max_concurrent]_vars

\* The worker accepts a dispatch of task t in this step
Accepts(t) == wk'.handlers[t] > wk.handlers[t]

StepPassed(name) ==
    \/ orch.pc \in {"returned", "acked"}
    \/ \E i \in 1..Len(orch.steps) : orch.steps[i] = name /\ i < orch.k

OpenChildren ==
    {t \in Children(orch.steps[orch.k]) : tasks[t].status_code \in {0, 1}}

\* C32: during a fan-out step the child tasks of the step that are created
\* and not terminal are never more than 10, however many chunks there are.
C32_FanoutBounded ==
    orch.pc = "fanout" => Cardinality(OpenChildren) <= 10


\* ------------------------------------------------ claims on the artifacts
\* C33: when parse-document and chunk are both requested, in whatever order,
\* every chunk child is created after a Succeeded parse-document child, and
\* its input carries the parsed key of that child if one was recorded; the
\* key of the submitted document is in the input of a chunk child only when
\* no parsed key was recorded.
C33_ChunkReadsParsedKey ==
    \A t \in Children("chunk") :
       /\ "parse-document" \in Requested
             => \E p \in Children("parse-document") :
                   p < t /\ tasks[p].status_code = 2
       /\ orch.parsed
             => /\ tasks[t].input = ParsedKeyInput
                /\ \E p \in Children("parse-document") :
                      p < t /\ tasks[p].status_code = 2
       /\ tasks[t].input = SourceKeyInput <=> ~orch.parsed

\* C33: a pipeline that listed chunk before parse-document, whose chunk child
\* was given the parsed key
C33_ParsedKeyAfterReordering ==
    /\ Len(orch.input) >= 2
    /\ orch.input[1] = "chunk" /\ orch.input[2] = "parse-document"
    /\ \E t \in Children("chunk") : tasks[t].input = ParsedKeyInput


\* C35: when execute_task of the parent is over (the parent is Succeeded or
\* Failed), every child task of the run is Succeeded or Failed.
C35_ChildrenTerminalWithParent ==
    orch.pc \in {"acked", "failed"} =>
       \A t \in ChildIds : tasks[t].status_code \in {2, 3}

\* --------------------------------------------- claims on the list of steps
\* How often the name is in the list
Listed(steps, name) == Cardinality({i \in 1..Len(steps) : steps[i] = name})

\* The entries of the list with a name unknown to _canonicalize_steps
UnknownSteps(steps) == SelectSeq(steps, LAMBDA name : name \notin StepNames)

C36_PayloadNamesLeasedTask ==
    \A m \in dispatchQ : m.kind = "http" => PayloadTaskId(m.task) = m.task


\* ----------------------------------------------- claims on the FAIL update
\* work() of an invocation for task t returned in this step and the
\* task-service applied the ack: the ack was served, or it was applied and
\* raised in the worker all the same
HandlerReturned(t) ==
    \/ HandlerFinish(t, AckBody)
    \/ \E failed \in BOOLEAN : HandlerFinishAckError(t, TRUE, failed)

\* C37: when the handler of a task returned, the slot manager does not set
\* the task Failed, also when the ACK request fails (for a task that is
\* Running and was not acknowledged before).
C37_FailOnlyWhenRaised ==
    [][\A t \in 1..Len(tasks) :
          (/\ tasks[t].status_code = 1
           /\ tasks[t].progress_percentage < 100
           /\ HandlerReturned(t))
              => tasks'[t].status_code # 3]_vars


\* ------------------------------------------- claims on the end_timestamp
\* C38: once a task is Succeeded or Failed and end_timestamp is set, an
\* update that leaves its status_code as it is does not change end_timestamp.
C38_EndTimestampStable ==
    [][\A t \in 1..Len(tasks) :
          (/\ tasks[t].status_code \in {2, 3}
           /\ tasks[t].end_timestamp # None
           /\ tasks'[t].status_code = tasks[t].status_code)
              => tasks'[t].end_timestamp = tasks[t].end_timestamp]_vars

\* ---------------------------------------------------- claims on start()
\* A start() runs one of its two checks of _available_slots in this step
StartChecks == wk'.new < wk.new \/ wk'.wait < wk.wait

\* work() of some invocation ends in this step
SomeInvocationEnds == \E t \in TaskIds : InvocationEnds(t)

\* C39: a start() that finds available_tokens at 0 sends nothing and changes
\* nothing; the lock is taken for a PUT only with available_tokens > 0; the
\* start() that holds the lock leaves the PUT only for its answer, and the
\* answer only for a new PUT (failure) or for the decrement by one and the
\* release of the lock (success); available_tokens is decremented by start()
\* in no other step, so two start() calls never decrement for one check.
C39_StartCountsOnce ==
    [][/\ (StartChecks /\ wk.avail <= 0)
             => /\ wk'.lock = wk.lock /\ wk'.avail = wk.avail
                /\ wk'.wait <= wk.wait
                /\ consumers' = consumers
       /\ (wk.lock = "free" /\ wk'.lock # "free")
             => wk.avail > 0 /\ wk'.lock = "put"
       /\ wk.lock = "put" => wk'.lock \in {"put", "resp"}
       /\ (wk.lock = "resp" /\ wk'.lock # "resp")
             => \/ wk'.lock = "put" /\ wk'.avail = wk.avail
                \/ wk'.lock = "free" /\ wk'.avail = wk.avail - 1
       /\ (wk'.avail < wk.avail /\ ~SomeInvocationEnds)
             => /\ wk.lock = "resp" /\ wk'.lock = "free"
                /\ wk'.avail = wk.avail - 1]_vars

\* C39: a start() waits for the lock while the start() that held it has
\* taken the last token
C39_SecondStartFindsNoToken ==
    wk.avail = 0 /\ wk.wait > 0 /\ wk.lock = "free"

\* ------------------------------------------------- claims on the liveness
\* C34: a worker that is up and has a free slot is not invisible for ever:
\* from every such state on, eventually its consumer row is there with
\* is_ready = true or a task has been dispatched to it and is in its hands.
C34_WorkerStaysVisible ==
    (wk.up /\ Cardinality(wk.inflight) < max_concurrent)
       ~> (TokenSet \/ \E t \in TaskIds : DispatchOpen(t))

====
